---------------------------- MODULE Spec2Model ----------------------------
(***************************************************************************)
(* Model of the OGC analytics dashboard (src/main.py): the two classifier  *)
(* functions, the loader's enrichment, the session state, the sidebar      *)
(* filters and the attorney utilization tables.                            *)
(*                                                                         *)
(* Conventions.  A nullable scalar (a pandas cell that may be NaN / NaT)   *)
(* is a sequence of length 0 (missing) or 1 (the value).  A free text is a *)
(* sequence of one-character strings.  Money is whole dollars, hours are   *)
(* whole hours, a date is a day number.  A ratio is a pair <<num, den>>.   *)
(***************************************************************************)
EXTENDS Integers, Sequences, FiniteSets, TLC

VARIABLES
    band_fn,            \* classifier applied last: "none", "fee" or "revenue"
    band_arg,           \* its argument
    band_result,        \* the label it returned
    six_months_df,      \* the enriched time-entry table load_data returned
    session_state,      \* st.session_state
    run,                \* the last script run: widget results, button, outcome,
                        \* and the frame object filtered_df names
    filtered_df,        \* the filtered view of the last run
    attorney_util,      \* Overview tab: the rows of the utilization chart
    attorney_metrics,   \* Attorney Analysis tab: the attorney table
    order_left,         \* filter statements not yet applied, when tried in any order
    order_df,           \* the rows left by the filter statements applied so far
    sources,            \* the files on disk: their rows, which are unreadable
    loaded,             \* what load_data returned, and whether it showed an error
    pc,                 \* the section the script run has reached
    sections,           \* what became of each section of the run
    metrics             \* the numbers the tabs have computed in the run

band_vars == <<band_fn, band_arg, band_result>>

app_vars == <<six_months_df, session_state, run, filtered_df, attorney_util,
              attorney_metrics>>

order_vars == <<order_left, order_df>>

script_vars == <<sources, loaded, pc, sections, metrics>>

vars == <<band_vars, app_vars, order_vars, script_vars>>

-----------------------------------------------------------------------------
(* Values handed to the classifiers *)

NullValue == [kind |-> "null", n |-> 0, chars |-> <<>>]
Num(n) == [kind |-> "num", n |-> n, chars |-> <<>>]
Text(s) == [kind |-> "text", n |-> 0, chars |-> s]

\* pd.isna(v)
IsNa(v) == v.kind = "null"

\* Python truthiness of v ("not v" is its negation)
Truthy(v) ==
    CASE v.kind = "null" -> TRUE        \* float('nan') is truthy
      [] v.kind = "num" -> v.n # 0
      [] OTHER -> Len(v.chars) > 0

UpperAlphabet == <<"A", "B", "C", "D", "E", "F", "G", "H", "I", "J", "K", "L", "M",
                   "N", "O", "P", "Q", "R", "S", "T", "U", "V", "W", "X", "Y", "Z">>

LowerAlphabet == <<"a", "b", "c", "d", "e", "f", "g", "h", "i", "j", "k", "l", "m",
                   "n", "o", "p", "q", "r", "s", "t", "u", "v", "w", "x", "y", "z">>

\* str.lower() on one character
LowerChar(c) ==
    IF \E i \in 1..Len(UpperAlphabet) : UpperAlphabet[i] = c
    THEN LowerAlphabet[CHOOSE i \in 1..Len(UpperAlphabet) : UpperAlphabet[i] = c]
    ELSE c

\* str.upper() on one character (used to build inputs only)
UpperChar(c) ==
    IF \E i \in 1..Len(LowerAlphabet) : LowerAlphabet[i] = c
    THEN UpperAlphabet[CHOOSE i \in 1..Len(LowerAlphabet) : LowerAlphabet[i] = c]
    ELSE c

LowerNoop(s) == s

\* str(revenue_text).lower()
Lower(s) == [i \in 1..Len(s) |-> LowerChar(s[i])]

Upper(s) == [i \in 1..Len(s) |-> UpperChar(s[i])]

\* Python's "p in t" on strings
Contains(t, p) ==
    \E i \in 0..(Len(t) - Len(p)) : SubSeq(t, i + 1, i + Len(p)) = p

Digits == {"0", "1", "2", "3", "4", "5", "6", "7", "8", "9"}

DigitValue(c) ==
    CASE c = "0" -> 0 [] c = "1" -> 1 [] c = "2" -> 2 [] c = "3" -> 3
      [] c = "4" -> 4 [] c = "5" -> 5 [] c = "6" -> 6 [] c = "7" -> 7
      [] c = "8" -> 8 [] OTHER -> 9

RECURSIVE DecimalValue(_)
DecimalValue(s) ==
    IF Len(s) = 0 THEN 0
    ELSE 10 * DecimalValue(SubSeq(s, 1, Len(s) - 1)) + DigitValue(s[Len(s)])

\* str(v) of a number, for the non-negative numbers the model feeds in
RECURSIVE DecimalText(_)
DecimalText(n) ==
    LET d == n % 10
        c == CHOOSE x \in Digits : DigitValue(x) = d
    IN IF n < 10 THEN <<c>> ELSE Append(DecimalText(n \div 10), c)

\* str(v)
StrOf(v) ==
    CASE v.kind = "text" -> v.chars
      [] v.kind = "num" ->
            IF v.n >= 0 THEN DecimalText(v.n) ELSE <<"-">> \o DecimalText(-v.n)
      [] OTHER -> <<"n", "a", "n">>

\* float(v): <<x>> when v converts, <<>> when float() raises ValueError
FloatOf(v) ==
    CASE v.kind = "num" -> <<v.n>>
      [] v.kind = "text" ->
            IF Len(v.chars) > 0 /\ \A i \in 1..Len(v.chars) : v.chars[i] \in Digits
            THEN <<DecimalValue(v.chars)>>
            ELSE <<>>
      [] OTHER -> <<>>

-----------------------------------------------------------------------------
(* get_company_revenue_band *)

RevenueBandUnknown == "Unknown"

\* the phrases tested by the if/elif chain, in its order, with the label returned
RevenueVocabulary == <<
    [phrase |-> <<"<", " ", "$", "1", "0", "m">>, label |-> "< $10M"],
    [phrase |-> <<"u", "n", "d", "e", "r", " ", "$", "1", "0", "m">>, label |-> "< $10M"],
    [phrase |-> <<"$", "1", "0", "m", " ", "-", " ", "$", "3", "0", "m">>,
        label |-> "$10M - $30M"],
    [phrase |-> <<"$", "3", "0", "m", " ", "-", " ", "$", "1", "0", "0", "m">>,
        label |-> "$30M - $100M"],
    [phrase |-> <<"$", "1", "0", "0", "m", " ", "-", " ", "$", "5", "0", "0", "m">>,
        label |-> "$100M - $500M"],
    [phrase |-> <<"$", "5", "0", "0", "m", " ", "-", " ", "$", "1", "b">>,
        label |-> "$500M - $1B"],
    [phrase |-> <<"$", "1", "b", " ", "-", " ", "$", "3", "b">>, label |-> "$1B - $3B"],
    [phrase |-> <<"$", "3", "b", " ", "-", " ", "$", "1", "0", "b">>,
        label |-> "$3B - $10B"],
    [phrase |-> <<">", " ", "$", "1", "0", " ", "b", "i", "l", "l", "i", "o", "n">>,
        label |-> "> $10B"],
    [phrase |-> <<">", " ", "$", "1", "0", "b">>, label |-> "> $10B"] >>

\* the first branch of the chain whose phrase occurs in text, else "Unknown"
RECURSIVE RevenueChain(_, _)
RevenueChain(text, k) ==
    IF k > Len(RevenueVocabulary) THEN RevenueBandUnknown
    ELSE IF Contains(text, RevenueVocabulary[k].phrase)
         THEN RevenueVocabulary[k].label
         ELSE RevenueChain(text, k + 1)

get_company_revenue_band(revenue_text) ==
    IF IsNa(revenue_text) \/ ~Truthy(revenue_text)
    THEN RevenueBandUnknown
    ELSE RevenueChain(Lower(StrOf(revenue_text)), 1)

\* the option list of the 'Company Revenue Bands' widget
revenue_bands == <<"< $10M", "$10M - $30M", "$30M - $100M", "$100M - $500M",
                   "$500M - $1B", "$1B - $3B", "$3B - $10B", "> $10B", "Unknown">>

-----------------------------------------------------------------------------
(* get_fee_band *)

\* the ladder of the if/elif chain: upper threshold (annual dollars) and label
FeeLadder == <<
    [upto |-> 50000, label |-> "Under $50K"],
    [upto |-> 100000, label |-> "$50K-$100K"],
    [upto |-> 250000, label |-> "$100K-$250K"],
    [upto |-> 500000, label |-> "$250K-$500K"],
    [upto |-> 1000000, label |-> "$500K-$1M"],
    [upto |-> 2000000, label |-> "$1M-$2M"],
    [upto |-> 5000000, label |-> "$2M-$5M"],
    [upto |-> 10000000, label |-> "$5M-$10M"] >>

FeeBandTop == "Over $10M"

FeeBandLowest == "Under $50K"

RECURSIVE FeeChain(_, _)
FeeChain(annual_fees, k) ==
    IF k > Len(FeeLadder) THEN FeeBandTop
    ELSE IF annual_fees <= FeeLadder[k].upto
         THEN FeeLadder[k].label
         ELSE FeeChain(annual_fees, k + 1)

AnnualizeNot(x) == x

\* float(six_month_revenue) * 2
Annualize(x) == x * 2

FeeBandReraised == "ValueError"

\* lines 90-92: what the except branch returns
FeeBandOnException == "Under $50K"

get_fee_band(six_month_revenue) ==
    IF IsNa(six_month_revenue)
       \/ (six_month_revenue.kind = "num" /\ six_month_revenue.n = 0)
    THEN FeeBandLowest
    ELSE LET f == FloatOf(six_month_revenue)
         IN IF Len(f) = 0
            THEN FeeBandOnException
            ELSE FeeChain(Annualize(f[1]), 1)

\* the option list of the 'Fee Bands' widget
fee_bands == <<"Under $50K", "$50K-$100K", "$100K-$250K", "$250K-$500K",
               "$500K-$1M", "$1M-$2M", "$2M-$5M", "$5M-$10M", "Over $10M">>

-----------------------------------------------------------------------------
(* The source files read by load_data *)

Missing == <<>>

Some(x) == <<x>>

IsMissing(cell) == Len(cell) = 0

TxtBillable == <<"B", "i", "l", "l", "a", "b", "l", "e">>
TxtBillablePadded == <<" ", "B", "I", "L", "L", "A", "B", "L", "E", " ">>
TxtNonBillable == <<"N", "o", "n", "-", "B", "i", "l", "l", "a", "b", "l", "e">>
TxtExpense == <<"E", "x", "p", "e", "n", "s", "e">>

ActiveStage == "Active"

\* ATTORNEY_PG_AND_HRS.csv: one row per attorney
AttorneyRoster == {
    [row |-> 1, AttorneyName |-> "A. Smith", Stage |-> "Active", TargetHoursMonth |-> Some(10)],
    [row |-> 2, AttorneyName |-> "B. Jones", Stage |-> "Active", TargetHoursMonth |-> Some(0)],
    [row |-> 3, AttorneyName |-> "C. Lee", Stage |-> "Inactive", TargetHoursMonth |-> Some(20)],
    [row |-> 4, AttorneyName |-> "D. Park", Stage |-> "Active", TargetHoursMonth |-> Missing] }

\* SIX_FULL_MOS.csv: the time entries a dataset is drawn from
TimeEntries == {
    [id |-> 1, InvoiceNumber |-> Some(101), ServiceDate |-> Some(1), InvoiceDate |-> Some(3), Attorney |-> "A. Smith",
     PG |-> "Corporate", Client |-> "Acme", Matter |-> "Acme Formation",
     Rate |-> Some(200), Hours |-> 10, Amount |-> 2000, ActivityType |-> TxtBillable,
     CompanyRevenue |-> Text(<<"$", "1", "0", "M", " ", "-", " ", "$", "3", "0", "M">>)],
    [id |-> 2, InvoiceNumber |-> Some(102), ServiceDate |-> Some(2), InvoiceDate |-> Some(3), Attorney |-> "A. Smith",
     PG |-> "Corporate", Client |-> "Acme", Matter |-> "Acme Formation",
     Rate |-> Some(300), Hours |-> 20, Amount |-> 6000, ActivityType |-> TxtBillable,
     CompanyRevenue |-> Text(<<"$", "1", "0", "M", " ", "-", " ", "$", "3", "0", "M">>)],
    [id |-> 3, InvoiceNumber |-> Some(103), ServiceDate |-> Some(3), InvoiceDate |-> Some(3), Attorney |-> "B. Jones",
     PG |-> "Litigation", Client |-> "Beta", Matter |-> "Beta Dispute",
     Rate |-> Missing, Hours |-> 5, Amount |-> 30000, ActivityType |-> TxtBillablePadded,
     CompanyRevenue |-> NullValue],
    [id |-> 4, InvoiceNumber |-> Some(104), ServiceDate |-> Missing, InvoiceDate |-> Some(2), Attorney |-> "C. Lee",
     PG |-> "Litigation", Client |-> "Beta", Matter |-> "Beta Dispute",
     Rate |-> Some(0), Hours |-> 3, Amount |-> 500, ActivityType |-> TxtNonBillable,
     CompanyRevenue |-> NullValue],
    [id |-> 5, InvoiceNumber |-> Some(105), ServiceDate |-> Some(2), InvoiceDate |-> Some(2), Attorney |-> "D. Park",
     PG |-> "Corporate", Client |-> "Acme", Matter |-> "Acme Filing",
     Rate |-> Missing, Hours |-> 0, Amount |-> 40000, ActivityType |-> TxtExpense,
     CompanyRevenue |-> Text(<<"$", "1", "0", "M", " ", "-", " ", "$", "3", "0", "M">>)] }

\* the most time entries left out of the export a session is started on
MaxDropped == 1

\* the exports a session may be started on: the time entries less at most
\* MaxDropped of them, with at least one dated entry that is not an expense
Datasets ==
    {S \in SUBSET TimeEntries :
        /\ Cardinality(TimeEntries \ S) <= MaxDropped
        /\ \E r \in S : ~IsMissing(r.ServiceDate) /\ r.ActivityType # TxtExpense}

-----------------------------------------------------------------------------
(* load_data *)

RECURSIVE SumAmount(_)
\* df['Amount'].sum() over a set of rows
SumAmount(rows) ==
    IF rows = {} THEN 0
    ELSE LET r == CHOOSE x \in rows : TRUE
         IN r.Amount + SumAmount(rows \ {r})

RECURSIVE SumHours(_)
\* df['Hours'].sum() over a set of rows
SumHours(rows) ==
    IF rows = {} THEN 0
    ELSE LET r == CHOOSE x \in rows : TRUE
         IN r.Hours + SumHours(rows \ {r})

\* the row of lowest position in a non-empty set of rows
FirstRow(rows) == CHOOSE r \in rows : \A q \in rows : r.id <= q.id

ActiveAttorneysUnfiltered(roster) == roster

\* attorneys[attorneys['Attorney pipeline stage'] == '🟢 Active']
ActiveAttorneys(roster) == {a \in roster : a.Stage = ActiveStage}

\* client_revenue: per client, get_fee_band of the summed Amount of its rows
ClientFeeBand(six_months, client) ==
    get_fee_band(Num(SumAmount({r \in six_months : r.Client = client})))

\* client_company_revenue: groupby('Client Name')['Company Revenue'].first(),
\* the first non-null value of the client, then get_company_revenue_band
ClientRevenueBand(six_months, client) ==
    LET known == {r \in six_months : r.Client = client /\ ~IsNa(r.CompanyRevenue)}
    IN get_company_revenue_band(
           IF known = {} THEN NullValue ELSE FirstRow(known).CompanyRevenue)

FeeTypeOfWidgetLabel(r) ==
    IF ~IsMissing(r.Rate) /\ r.Rate[1] > 0 THEN "Time" ELSE "Fixed Fee"

\* lines 128-135, for an export without a 'Fee Type' column:
\* 'Time' if pd.notnull(row['Rate']) and row['Rate'] > 0 else 'Fixed'
FeeTypeOf(r) == IF ~IsMissing(r.Rate) /\ r.Rate[1] > 0 THEN "Time" ELSE "Fixed"

\* str.strip(): leading and trailing blanks removed
RECURSIVE Strip(_)
Strip(s) ==
    IF Len(s) = 0 THEN s
    ELSE IF s[1] = " " THEN Strip(Tail(s))
    ELSE IF s[Len(s)] = " " THEN Strip(SubSeq(s, 1, Len(s) - 1))
    ELSE s

BillableLabels == {<<"b", "i", "l", "l", "a", "b", "l", "e">>,
                   <<"b", "i", "l", "l">>,
                   <<"t", "i", "m", "e">>}

\* six_months['Activity Type Clean'].isin(['billable', 'bill', 'time'])
IsBillableActivity(activity) == Lower(Strip(activity)) \in BillableLabels

\* six_months[six_months['Activity Type'] != 'Expense']
DropExpenses(six_months) == {r \in six_months : r.ActivityType # TxtExpense}

MergedFeeBandPerEntry(r, six_months) == get_fee_band(Num(r.Amount))

\* lines 147-151: the Fee Band the left merge on 'Client Name' gives row r
MergedFeeBand(r, six_months) == ClientFeeBand(six_months, r.Client)

\* one row of the table load_data returns: the time entry r joined with the
\* roster row a (att_row 0 and a missing target when no roster row matches)
Enriched(r, six_months, att_row, target) ==
    [id |-> r.id, InvoiceNumber |-> r.InvoiceNumber,
     ServiceDate |-> r.ServiceDate, InvoiceDate |-> r.InvoiceDate,
     Attorney |-> r.Attorney, PG |-> r.PG, Client |-> r.Client, Matter |-> r.Matter,
     Rate |-> r.Rate, Hours |-> r.Hours, Amount |-> r.Amount,
     ActivityType |-> r.ActivityType,
     FeeType |-> FeeTypeOf(r),
     FeeBand |-> MergedFeeBand(r, six_months),
     RevenueBand |-> ClientRevenueBand(six_months, r.Client),
     att_row |-> att_row,
     TargetHours |-> target,
     IsBillable |-> IsBillableActivity(r.ActivityType)]

\* the first table load_data returns
load_data(six_months, roster) ==
    LET attorneys == ActiveAttorneys(roster)
        kept == DropExpenses(six_months)
        Matches(r) == {a \in attorneys : a.AttorneyName = r.Attorney}
    IN UNION {
         IF Matches(r) = {}
         THEN {Enriched(r, six_months, 0, Missing)}
         ELSE {Enriched(r, six_months, a.row, a.TargetHoursMonth) : a \in Matches(r)}
         : r \in kept }

-----------------------------------------------------------------------------
(* The sidebar widgets *)

\* what st.date_input hands back: None, a tuple of 0 to 2 dates (the widget was
\* given a tuple: range mode), or one bare date (it was given None or a date)
NoneRange == [kind |-> "none", dates |-> <<>>]

TupleRange(ds) == [kind |-> "tuple", dates |-> ds]

SingleDate(d) == [kind |-> "date", dates |-> <<d>>]

ServiceDates(df) == {r.ServiceDate[1] : r \in {x \in df : ~IsMissing(x.ServiceDate)}}

\* six_months_df['Service Date'].min() and .max(): missing dates are skipped
min_date(df) ==
    LET dates == ServiceDates(df)
    IN CHOOSE d \in dates : \A e \in dates : d <= e

max_date(df) ==
    LET dates == ServiceDates(df)
    IN CHOOSE d \in dates : \A e \in dates : e <= d

\* the days the date widget lets the user pick
PickableDays(df) == min_date(df)..max_date(df)

\* every value the date widget can return once the user has used it, given the
\* value it was created with
DateInputResults(df, value) ==
    LET days == PickableDays(df)
    IN IF value.kind = "tuple"
       THEN {TupleRange(<<>>)}
            \cup {TupleRange(<<d>>) : d \in days}
            \cup {TupleRange(p) : p \in {q \in days \X days : q[1] <= q[2]}}
       ELSE {NoneRange} \cup {SingleDate(d) : d \in days}

SelectionKeys == {"selected_fee_types", "selected_revenue_bands", "selected_fee_bands",
                  "selected_attorneys", "selected_practices", "selected_clients",
                  "selected_matters"}

fee_types == {"Time", "Fixed Fee", "All"}

SeqRange(s) == {s[i] : i \in 1..Len(s)}

\* the band labels whose selection the model explores: every label some row
\* carries and one label no row carries (isin treats all absent labels alike)
BandPicks(options, present) ==
    LET absent == {i \in 1..Len(options) : options[i] \notin present}
    IN (SeqRange(options) \cap present)
       \cup (IF absent = {} THEN {}
             ELSE {options[CHOOSE i \in absent : \A j \in absent : i <= j]})

\* the options each multiselect offers
Options(df, key) ==
    CASE key = "selected_fee_types" -> fee_types
      [] key = "selected_revenue_bands" ->
            BandPicks(revenue_bands, {r.RevenueBand : r \in df})
      [] key = "selected_fee_bands" -> BandPicks(fee_bands, {r.FeeBand : r \in df})
      [] key = "selected_attorneys" -> {r.Attorney : r \in df}
      [] key = "selected_practices" -> {r.PG : r \in df}
      [] key = "selected_clients" -> {r.Client : r \in df}
      [] OTHER -> {r.Matter : r \in df}

-----------------------------------------------------------------------------
(* The filter step of a run *)

\* the column each selection is matched against
ColumnOf(key) ==
    CASE key = "selected_revenue_bands" -> "RevenueBand"
      [] key = "selected_fee_bands" -> "FeeBand"
      [] key = "selected_attorneys" -> "Attorney"
      [] key = "selected_practices" -> "PG"
      [] key = "selected_clients" -> "Client"
      [] OTHER -> "Matter"

\* "date_range and len(date_range) == 2", for None and tuples
DateRangeComplete(date_range) ==
    date_range.kind = "tuple" /\ Len(date_range.dates) = 2

DateFilterExclusive(df, date_range) ==
    IF DateRangeComplete(date_range)
    THEN {r \in df : /\ ~IsMissing(r.ServiceDate)
                     /\ r.ServiceDate[1] >= date_range.dates[1]
                     /\ r.ServiceDate[1] < date_range.dates[2]}
    ELSE df

\* lines 311-315: a missing service date compares False on both sides
DateFilter(df, date_range) ==
    IF DateRangeComplete(date_range)
    THEN {r \in df : /\ ~IsMissing(r.ServiceDate)
                     /\ r.ServiceDate[1] >= date_range.dates[1]
                     /\ r.ServiceDate[1] <= date_range.dates[2]}
    ELSE df

\* lines 317-325
FeeTypeFilter(df, selected_fee_types) ==
    IF selected_fee_types # {}
    THEN IF "All" \notin selected_fee_types
         THEN IF "Time" \in selected_fee_types /\ "Fixed Fee" \in selected_fee_types
              THEN df
              ELSE IF "Time" \in selected_fee_types
                   THEN {r \in df : r.FeeType = "Time"}
                   ELSE IF "Fixed Fee" \in selected_fee_types
                        THEN {r \in df : r.FeeType = "Fixed"}
                        ELSE df
         ELSE df
    ELSE df

IsinFilterUnguarded(df, column, selected) == {r \in df : r[column] \in selected}

\* "if selected: filtered_df = filtered_df[filtered_df[column].isin(selected)]"
IsinFilter(df, column, selected) ==
    IF selected # {} THEN {r \in df : r[column] \in selected} ELSE df

\* the filter statement of one dimension, applied to df
FilterStep(key, df, sel) ==
    CASE key = "date_range" -> DateFilter(df, sel.date_range)
      [] key = "selected_fee_types" -> FeeTypeFilter(df, sel.selected_fee_types)
      [] OTHER -> IsinFilter(df, ColumnOf(key), sel[key])

\* the order in which lines 311-343 apply the filter statements
FilterOrder == <<"date_range", "selected_fee_types", "selected_revenue_bands",
                 "selected_fee_bands", "selected_attorneys", "selected_practices",
                 "selected_clients", "selected_matters">>

RECURSIVE ApplyInOrder(_, _, _)
ApplyInOrder(order, df, sel) ==
    IF Len(order) = 0 THEN df
    ELSE ApplyInOrder(Tail(order), FilterStep(Head(order), df, sel), sel)

\* an elif chain in place of the sequence of ifs: only the first dimension with
\* a selection filters
ApplyFirstActive(df, sel) ==
    LET active == {i \in 1..Len(FilterOrder) :
                       FilterStep(FilterOrder[i], df, sel) # df}
    IN IF active = {} THEN df
       ELSE FilterStep(FilterOrder[CHOOSE i \in active : \A j \in active : i <= j],
                       df, sel)

\* lines 297-343: filtered_df
ApplyFilters(df, sel) == ApplyInOrder(FilterOrder, df, sel)

\* lines 346-349: the status indicator of the sidebar
StatusIndicator(ss) ==
    IF ss.filters_active THEN "Filters are active" ELSE "No filters applied"

\* the frame object the name six_months_df is bound to
LoadedFrame == "six_months_df"

copy_aliased(frame) == frame

\* line 297, DataFrame.copy(): a new frame object
copy(frame) == "copy"

\* the filter statements whose "filtered_df = filtered_df[...]" is executed
IndexingKeys(sel) ==
    {key \in SelectionKeys \ {"selected_fee_types"} : sel[key] # {}}
    \cup (IF DateRangeComplete(sel.date_range) THEN {"date_range"} ELSE {})
    \cup (IF /\ sel.selected_fee_types # {}
              /\ "All" \notin sel.selected_fee_types
              /\ ~("Time" \in sel.selected_fee_types
                    /\ "Fixed Fee" \in sel.selected_fee_types)
          THEN {"selected_fee_types"} ELSE {})

\* lines 297-343: the frame object filtered_df names after the filter step;
\* df[mask] is a new frame object, and no statement writes into a frame
ViewFrame(sel) ==
    IF IndexingKeys(sel) = {} THEN copy(LoadedFrame) ELSE "indexed"

\* lines 300-309: the truthiness of the or-chain
FiltersActive(sel) ==
    \/ DateRangeComplete(sel.date_range)
    \/ \E key \in SelectionKeys : sel[key] # {}

-----------------------------------------------------------------------------
(* The attorney utilization tables *)

\* the months of data the utilization formulas assume
MonthsOfData == 6

\* groupby(...)['Target Hours'].first(): the first non-null target of the group
FirstTarget(rows) ==
    LET known == {r \in rows : ~IsMissing(r.TargetHours)}
    IN IF known = {} THEN Missing
       ELSE (CHOOSE r \in known :
                \A q \in known : r.id < q.id \/ (r.id = q.id /\ r.att_row <= q.att_row)
            ).TargetHours

UtilizationRateMonthly(hours, target) ==
    IF ~IsMissing(target) /\ target[1] > 0
    THEN <<hours * 100, target[1]>>
    ELSE <<0, 1>>

\* the lambda of lines 456 and 881-883, as the ratio <<numerator, denominator>>
UtilizationRate(hours, target) ==
    IF ~IsMissing(target) /\ target[1] > 0
    THEN <<hours * 100, target[1] * MonthsOfData>>
    ELSE <<0, 1>>

\* groupby('Associated Attorney').agg({'Hours': 'sum', 'Target Hours': 'first'})
AttorneyGroups(df) ==
    {[Attorney |-> a,
      Hours |-> SumHours({r \in df : r.Attorney = a}),
      TargetHours |-> FirstTarget({r \in df : r.Attorney = a})] :
        a \in {r.Attorney : r \in df}}

WithRate(g) ==
    [Attorney |-> g.Attorney, Hours |-> g.Hours, TargetHours |-> g.TargetHours,
     UtilizationRate |-> UtilizationRate(g.Hours, g.TargetHours)]

\* lines 446-458: the rows of the Overview tab's utilization chart
AttorneyUtil(df) ==
    {WithRate(g) : g \in {x \in AttorneyGroups(df) :
                              x.Hours > 1 /\ ~IsMissing(x.TargetHours)}}

\* lines 866-885: the rows of the Attorney Analysis table
AttorneyMetrics(df) ==
    {WithRate(g) : g \in {x \in AttorneyGroups(df) : x.Hours > 1}}

-----------------------------------------------------------------------------
(* Dates and the numbers handed to the presentation layer *)

\* the year in which day number 1 falls (the day numbers are offsets; only
\* differences and month buckets of Timestamps are read)
FirstYear == 2024

IsLeapNever(y) == FALSE

\* the Gregorian leap-year rule of Timestamp arithmetic
IsLeap(y) == (y % 4 = 0 /\ y % 100 # 0) \/ y % 400 = 0

DaysInMonth(y, m) ==
    CASE m = 2 -> IF IsLeap(y) THEN 29 ELSE 28
      [] m \in {4, 6, 9, 11} -> 30
      [] OTHER -> 31

RECURSIVE DaysBeforeMonth(_, _)
DaysBeforeMonth(y, m) ==
    IF m = 1 THEN 0 ELSE DaysBeforeMonth(y, m - 1) + DaysInMonth(y, m - 1)

RECURSIVE DaysBeforeYear(_)
DaysBeforeYear(y) ==
    IF y <= FirstYear THEN 0
    ELSE DaysBeforeYear(y - 1) + (IF IsLeap(y - 1) THEN 366 ELSE 365)

\* pd.to_datetime of the text yyyy-mm-dd, given as <<yyyy, mm, dd>>: its day
\* number, 2024-01-01 being day 1
to_datetime(date) ==
    DaysBeforeYear(date[1]) + DaysBeforeMonth(date[1], date[2]) + date[3]

\* pd.Grouper(freq='M'): the calendar month <<yyyy, mm>> a day number falls in
MonthBucket(day) ==
    CHOOSE ym \in (FirstYear..(FirstYear + 1)) \X (1..12) :
        /\ to_datetime(<<ym[1], ym[2], 1>>) <= day
        /\ day <= to_datetime(<<ym[1], ym[2], DaysInMonth(ym[1], ym[2])>>)

\* a float: a finite value num/den, NaN or an infinity
Ratio(n, d) == [kind |-> "num", num |-> n, den |-> d]

NaN == [kind |-> "nan", num |-> 0, den |-> 1]

Infinity == [kind |-> "inf", num |-> 1, den |-> 0]

\* a metric the run has not computed
NotComputed == [kind |-> "unset", num |-> 0, den |-> 1]

\* a / b on two columns of numbers: pandas divides as floats, so x / 0 is an
\* infinity and 0 / 0 is NaN, and nothing is raised
Divide(n, d) ==
    IF d # 0 THEN Ratio(n, d)
    ELSE IF n = 0 THEN NaN ELSE Infinity

\* v * k for a float v and a number k
Times(v, k) == IF v.kind = "num" THEN Ratio(v.num * k, v.den) ELSE v

\* Series.round(1): to the nearest tenth, a tie to the even tenth
Round1(v) ==
    IF v.kind # "num" THEN v
    ELSE LET n == IF v.den < 0 THEN -v.num ELSE v.num
             d == IF v.den < 0 THEN -v.den ELSE v.den
             q == (n * 10) \div d
             r == (n * 10) % d
             tenths == IF 2 * r > d THEN q + 1
                       ELSE IF 2 * r = d THEN q + (q % 2)
                       ELSE q
         IN Ratio(tenths, 10)

RECURSIVE SumFn(_, _)
\* the sum of f over the set S
SumFn(f, S) ==
    IF S = {} THEN 0
    ELSE LET x == CHOOSE y \in S : TRUE
         IN f[x] + SumFn(f, S \ {x})

\* Series.mean() of a column of nullable numbers: nulls are skipped, and the
\* mean of no number is NaN
Mean(cells) ==
    LET known == {i \in DOMAIN cells : ~IsMissing(cells[i])}
    IN IF known = {} THEN NaN
       ELSE Ratio(SumFn([i \in known |-> cells[i][1]], known), Cardinality(known))

-----------------------------------------------------------------------------
(* The files a script run reads *)

TxtTimePadded == <<" ", "T", "i", "m", "e">>

\* the rate of row 12 is a fixed amount, not Amount / Hours; row 13 was
\* invoiced three months after the service
ScenarioEntries == {
    [id |-> 11, InvoiceNumber |-> Some(1011),
     ServiceDate |-> Some(to_datetime(<<2024, 1, 1>>)),
     InvoiceDate |-> Some(to_datetime(<<2024, 1, 31>>)), Attorney |-> "A. Smith",
     PG |-> "Corporate", Client |-> "Gamma", Matter |-> "Gamma Advice",
     Rate |-> Some(400), Hours |-> 10, Amount |-> 4000, ActivityType |-> TxtBillable,
     CompanyRevenue |-> Text(<<"$", "1", "B", " ", "-", " ", "$", "3", "B">>)],
    [id |-> 12, InvoiceNumber |-> Some(1012),
     ServiceDate |-> Some(to_datetime(<<2024, 4, 1>>)),
     InvoiceDate |-> Some(to_datetime(<<2024, 4, 30>>)), Attorney |-> "A. Smith",
     PG |-> "Corporate", Client |-> "Gamma", Matter |-> "Gamma Advice",
     Rate |-> Some(500), Hours |-> 8, Amount |-> 5000, ActivityType |-> TxtNonBillable,
     CompanyRevenue |-> Text(<<"$", "1", "B", " ", "-", " ", "$", "3", "B">>)],
    [id |-> 13, InvoiceNumber |-> Some(1013),
     ServiceDate |-> Some(to_datetime(<<2024, 1, 1>>)),
     InvoiceDate |-> Some(to_datetime(<<2024, 4, 15>>)), Attorney |-> "B. Jones",
     PG |-> "Litigation", Client |-> "Delta", Matter |-> "Delta Dispute",
     Rate |-> Some(200), Hours |-> 6, Amount |-> 1200, ActivityType |-> TxtBillablePadded,
     CompanyRevenue |-> NullValue],
    [id |-> 14, InvoiceNumber |-> Some(1014),
     ServiceDate |-> Some(to_datetime(<<2024, 1, 2>>)),
     InvoiceDate |-> Some(to_datetime(<<2024, 1, 31>>)), Attorney |-> "C. Lee",
     PG |-> "Litigation", Client |-> "Epsilon", Matter |-> "Epsilon Claim",
     Rate |-> Some(400), Hours |-> 2, Amount |-> 800, ActivityType |-> TxtTimePadded,
     CompanyRevenue |-> NullValue],
    [id |-> 15, InvoiceNumber |-> Some(1015),
     ServiceDate |-> Some(to_datetime(<<2024, 2, 15>>)),
     InvoiceDate |-> Some(to_datetime(<<2024, 2, 29>>)), Attorney |-> "D. Park",
     PG |-> "Tax", Client |-> "Zeta", Matter |-> "Zeta Filing",
     Rate |-> Missing, Hours |-> 0, Amount |-> 1500, ActivityType |-> TxtBillable,
     CompanyRevenue |-> NullValue] }

\* SIX_FULL_MOS.csv as a script run may find it: the entries above less at
\* most MaxDropped of them
ScenarioDatasets ==
    {S \in SUBSET ScenarioEntries :
        S # {} /\ Cardinality(ScenarioEntries \ S) <= MaxDropped}

\* a roster in which one attorney is listed on two rows
RosterListedTwice ==
    AttorneyRoster
    \cup {[row |-> 5, AttorneyName |-> "A. Smith", Stage |-> "Active",
           TargetHoursMonth |-> Some(12)]}

\* a roster in which a stage is spelled in lower case
RosterStageLowerCase ==
    AttorneyRoster
    \cup {[row |-> 5, AttorneyName |-> "C. Lee", Stage |-> "active",
           TargetHoursMonth |-> Some(15)]}

\* ATTORNEY_PG_AND_HRS.csv as a script run may find it
Rosters == {AttorneyRoster, RosterListedTwice, RosterStageLowerCase}

PrimaryFile == "SIX_FULL_MOS.csv"

RosterFile == "ATTORNEY_PG_AND_HRS.csv"

\* the files load_data reads, lines 99-103
Files == {PrimaryFile, RosterFile, "ATTORNEY_CLIENTS.csv", "UTILIZATION.csv",
          "PIVOT_SOURCE_1.csv"}

\* the file the Attorney Fx tab reads, line 1431
NineBoxFile == "paste.txt"

\* columns of SIX_FULL_MOS.csv that load_data does not read
OptionalColumns == {"Invoice Number", "Matter Name"}

NoSources == [six_months |-> {}, attorneys |-> {}, unreadable |-> {}, absent |-> {}]

NotLoaded == [returned |-> [f \in Files |-> "unset"], error |-> FALSE, attorneys_df |-> {}]

ReadFailsNever(src) == FALSE

\* one of the read_csv calls of lines 99-103 raises
ReadFails(src) == src.unreadable \cap Files # {}

\* lines 96-183: the five values returned, whether st.error was called, and
\* the first two tables
LoadOutcome(src) ==
    IF ReadFails(src)
    THEN [returned |-> [f \in Files |-> "None"], error |-> TRUE, six_months_df |-> {},
          attorneys_df |-> {}]
    ELSE [returned |-> [f \in Files |-> "DataFrame"], error |-> FALSE,
          six_months_df |-> load_data(src.six_months, src.attorneys),
          attorneys_df |-> ActiveAttorneys(src.attorneys)]

-----------------------------------------------------------------------------
(* The sections of a script run *)

SectionOrder == <<"sidebar", "tab1", "tab2", "tab3", "tab4", "tab5", "tab6", "tab7",
                  "tab8">>

NoSections == [s \in SeqRange(SectionOrder) |-> "not run"]

\* the section after s ("done" after the last)
NextSection(s) ==
    LET i == CHOOSE k \in 1..Len(SectionOrder) : SectionOrder[k] = s
    IN IF i = Len(SectionOrder) THEN "done" ELSE SectionOrder[i + 1]

\* the optional columns each section reads in its first statements
ColumnsRead(s) ==
    CASE s = "sidebar" -> {"Matter Name"}
      [] s = "tab1" -> {"Invoice Number"}
      [] s = "tab2" -> {"Matter Name", "Invoice Number"}
      [] s = "tab3" -> {"Matter Name"}
      [] s = "tab4" -> {"Matter Name", "Invoice Number"}
      [] s = "tab5" -> {"Matter Name"}
      [] s = "tab6" -> {"Matter Name"}
      [] s = "tab7" -> {"Matter Name", "Invoice Number"}
      [] OTHER -> {}

\* the sections whose body stands in a try block with "except Exception"
GuardedSections == {"tab4", "tab5", "tab6", "tab7", "tab8"}

\* section s raises: a column it reads is absent (KeyError), or the file it
\* reads is (FileNotFoundError)
SectionRaises(s, src) ==
    \/ ColumnsRead(s) \cap src.absent # {}
    \/ s = "tab8" /\ NineBoxFile \in src.unreadable

\* a calendar month <<yyyy, mm>> as a number that orders the months
MonthIndex(ym) == ym[1] * 12 + ym[2]

\* lines 364-368: groupby(pd.Grouper(key='Invoice Date', freq='M'))
\* ['Invoice Number'].nunique(), then iloc[-1], or 0 when the series is empty.
\* Rows without an invoice date fall in no bucket, and the last bucket is the
\* month of the latest invoice date
MonthlyBills(df) ==
    LET dated == {r \in df : ~IsMissing(r.InvoiceDate)}
        Month(r) == MonthIndex(MonthBucket(r.InvoiceDate[1]))
        last == {r \in dated : \A q \in dated : Month(q) <= Month(r)}
    IN IF dated = {} THEN 0
       ELSE Cardinality({r.InvoiceNumber[1] :
                            r \in {x \in last : ~IsMissing(x.InvoiceNumber)}})

\* lines 363-400: the KPIs of the Overview tab
OverviewKPIs(df) ==
    LET total_billable == SumHours({r \in df : r.IsBillable})
        total_hours == SumHours(df)
    IN [monthly_bills |-> MonthlyBills(df),
        total_billable |-> total_billable,
        total_hours |-> total_hours,
        billable_share |-> IF total_hours > 0
                           THEN Ratio(total_billable * 100, total_hours)
                           ELSE Ratio(0, 1),
        avg_rate |-> Mean([r \in df |-> r.Rate]),
        total_fees |-> SumAmount(df)]

\* lines 489-500: clients_df and its two averages
ClientAverages(df) ==
    LET clients == {r.Client : r \in df}
        Of(c) == {r \in df : r.Client = c}
    IN [avg_revenue_per_client |-> Mean([c \in clients |-> Some(SumAmount(Of(c)))]),
        avg_hours_per_client |-> Mean([c \in clients |-> Some(SumHours(Of(c)))])]

\* lines 582-595: one row per Fee Band of the filtered view
FeeBandMetrics(df) ==
    LET Of(b) == {r \in df : r.FeeBand = b}
        ClientCount(b) == Cardinality({r.Client : r \in Of(b)})
        bands == {r.FeeBand : r \in df}
        total_clients == SumFn([b \in bands |-> ClientCount(b)], bands)
        total_fees == SumFn([b \in bands |-> SumAmount(Of(b))], bands)
    IN {[FeeBand |-> b, Clients |-> ClientCount(b), Amount |-> SumAmount(Of(b)),
         ClientPct |-> Round1(Times(Divide(ClientCount(b), total_clients), 100)),
         FeePct |-> Round1(Times(Divide(SumAmount(Of(b)), total_fees), 100))] :
            b \in bands}

\* Series.min() and .max() of the service dates: NaT when there is none
FirstService(rows) ==
    IF ServiceDates(rows) = {} THEN Missing ELSE Some(min_date(rows))

LastService(rows) ==
    IF ServiceDates(rows) = {} THEN Missing ELSE Some(max_date(rows))

\* lines 700-702: (Last Service - First Service).dt.days
RetentionDays(first, last) ==
    IF IsMissing(first) \/ IsMissing(last) THEN Missing ELSE Some(last[1] - first[1])

\* the days of a month in line 760
RetentionMonthDays == 30

\* lines 759-760: Total Fees / (Retention Days / 30).clip(lower=1)
MonthlyFees(total, retention) ==
    IF IsMissing(retention) THEN NaN
    ELSE IF retention[1] >= RetentionMonthDays
         THEN Ratio(total * RetentionMonthDays, retention[1])
         ELSE Ratio(total, 1)

\* the days of inactivity in line 765
ChurnWindowDays == 90

ChurnProbabilityInclusive(recent_date, last) ==
    IF ~IsMissing(recent_date) /\ ~IsMissing(last)
       /\ recent_date[1] - last[1] >= ChurnWindowDays
    THEN <<4, 5>> ELSE <<1, 5>>

\* lines 764-768, 0.8 or 0.2 as the ratio <<numerator, denominator>>: a
\* missing date compares False
ChurnProbability(recent_date, last) ==
    IF ~IsMissing(recent_date) /\ ~IsMissing(last)
       /\ recent_date[1] - last[1] > ChurnWindowDays
    THEN <<4, 5>> ELSE <<1, 5>>

\* lines 771-772: (Avg Monthly Fees / Churn Probability) * 12
LTV(monthly, churn) ==
    IF monthly.kind = "num"
    THEN Ratio(monthly.num * churn[2] * 12, monthly.den * churn[1])
    ELSE monthly

\* lines 682-772: one row per client of the filtered view
ClientMetrics(df) ==
    LET recent_date == LastService(df)
        Row(c) ==
            LET rows == {r \in df : r.Client = c}
                first == FirstService(rows)
                last == LastService(rows)
                retention == RetentionDays(first, last)
                monthly == MonthlyFees(SumAmount(rows), retention)
                churn == ChurnProbability(recent_date, last)
            IN [Client |-> c, TotalFees |-> SumAmount(rows),
                FirstService |-> first, LastService |-> last,
                RetentionDays |-> retention, MonthlyFees |-> monthly,
                ChurnProbability |-> churn, LTV |-> LTV(monthly, churn)]
    IN {Row(c) : c \in {r.Client : r \in df}}

\* lines 866-889: Amount / Hours of the attorneys kept by "Hours > 1"
AvgHourlyRates(df) ==
    LET Of(a) == {r \in df : r.Attorney = a}
    IN {[Attorney |-> a, Hours |-> SumHours(Of(a)), Amount |-> SumAmount(Of(a)),
         AvgHourlyRate |-> Divide(SumAmount(Of(a)), SumHours(Of(a)))] :
            a \in {x \in {r.Attorney : r \in df} : SumHours(Of(x)) > 1}}

\* lines 1095-1104: one row per practice group
PracticeMetrics(df) ==
    LET Of(g) == {r \in df : r.PG = g}
    IN {[PG |-> g, Hours |-> SumHours(Of(g)), Amount |-> SumAmount(Of(g)),
         AvgRate |-> Divide(SumAmount(Of(g)), SumHours(Of(g)))] :
            g \in {r.PG : r \in df}}

\* lines 1216-1231: one row per month of service and Revenue Band; the rows
\* without a service date fall in no month
MonthlyTrends(df) ==
    LET dated == {r \in df : ~IsMissing(r.ServiceDate)}
        Key(r) == <<MonthBucket(r.ServiceDate[1]), r.RevenueBand>>
        Of(k) == {r \in dated : Key(r) = k}
    IN {[Month |-> k[1], RevenueBand |-> k[2], Hours |-> SumHours(Of(k)),
         Amount |-> SumAmount(Of(k)),
         AvgRate |-> Divide(SumAmount(Of(k)), SumHours(Of(k)))] :
            k \in {Key(r) : r \in dated}}

NoMetrics ==
    [monthly_bills |-> 0, total_billable |-> 0, total_hours |-> 0,
     billable_share |-> NotComputed,
     avg_rate |-> NotComputed, total_fees |-> 0,
     avg_revenue_per_client |-> NotComputed, avg_hours_per_client |-> NotComputed,
     fee_band_metrics |-> {}, client_metrics |-> {}, avg_hourly_rates |-> {},
     practice_metrics |-> {}, monthly_trends |-> {}]

ScriptIdle ==
    /\ sources = NoSources
    /\ loaded = NotLoaded
    /\ pc = "idle"
    /\ sections = NoSections
    /\ metrics = NoMetrics

-----------------------------------------------------------------------------
(* The session: one script run per user interaction *)

Secret == "OGC2025AI"

Passwords == {"", Secret, "wrong"}

\* lines 20-21: in an authenticated session check_password returns before the
\* password field is created
NotAsked == "not asked"

NoSelection ==
    [date_range |-> NoneRange, selected_fee_types |-> {}, selected_revenue_bands |-> {},
     selected_fee_bands |-> {}, selected_attorneys |-> {}, selected_practices |-> {},
     selected_clients |-> {}, selected_matters |-> {}]

\* lines 11-17; keys is the set of names "in st.session_state"
InitialSessionState ==
    [authenticated |-> FALSE, filters_active |-> FALSE,
     keys |-> {"authenticated", "filters_active"},
     date_range |-> NoneRange, selected_fee_types |-> {}, selected_revenue_bands |-> {},
     selected_fee_bands |-> {}, selected_attorneys |-> {}, selected_practices |-> {},
     selected_clients |-> {}, selected_matters |-> {}]

\* the names clear_filters tests and resets to []
ClearedKeys == {"selected_bands", "selected_attorneys", "selected_practices",
                "selected_matters", "selected_clients", "selected_fee_types"}

\* lines 186-202
clear_filters(ss) ==
    [k \in DOMAIN ss |->
        CASE k = "filters_active" -> FALSE
          [] k \in ClearedKeys /\ k \in ss.keys -> {}
          [] k = "date_range" /\ k \in ss.keys -> NoneRange
          [] OTHER -> ss[k]]

check_password_nonempty(ss, password) == ss.authenticated \/ password # ""

\* lines 19-29
check_password(ss, password) == ss.authenticated \/ password = Secret

\* the number of values selected over all multiselects
Picks(sel) ==
    Cardinality(sel.selected_fee_types) + Cardinality(sel.selected_revenue_bands)
    + Cardinality(sel.selected_fee_bands) + Cardinality(sel.selected_attorneys)
    + Cardinality(sel.selected_practices) + Cardinality(sel.selected_clients)
    + Cardinality(sel.selected_matters)

\* the most values the modelled user keeps selected at a time
MaxPicks == 1

\* lines 222-224: the default written before the date widget is created
WithDefaultDateRange(ss, df) ==
    IF "date_range" \in ss.keys THEN ss
    ELSE [ss EXCEPT !.keys = @ \cup {"date_range"},
                    !.date_range = TupleRange(<<min_date(df), max_date(df)>>)]

\* lines 213-483 of one run: the password field returned `password`, the user
\* has acted on `widget` ("none": on no widget), which now returns `value`;
\* `clear` is the Clear All Filters button
Dashboard(ss0, password, widget, value, clear) ==
    LET df == six_months_df
        ss1 == WithDefaultDateRange(ss0, df)
        date_range == IF widget = "date_range" THEN value ELSE ss1.date_range
        Selected(key) == IF widget = key THEN value ELSE ss1[key]
        sel == [k \in DOMAIN NoSelection |->
                    IF k = "date_range" THEN date_range ELSE Selected(k)]
        ss2 == [k \in DOMAIN ss1 |->
                    CASE k = "keys" -> ss1.keys \cup SelectionKeys
                      [] k \in DOMAIN NoSelection -> sel[k]
                      [] OTHER -> ss1[k]]
        ss3 == IF clear THEN clear_filters(ss2) ELSE ss2
    IN IF date_range.kind = "date"
       THEN \* line 301: len() of a datetime.date raises TypeError
            /\ session_state' = ss3
            /\ run' = [outcome |-> "TypeError", clear |-> clear, sel |-> sel,
                       view |-> copy(LoadedFrame), password |-> password]
            /\ filtered_df' = {}
            /\ attorney_util' = {}
            /\ attorney_metrics' = {}
       ELSE /\ session_state' = [ss3 EXCEPT !.filters_active = FiltersActive(sel)]
            /\ run' = [outcome |-> "rendered", clear |-> clear, sel |-> sel,
                       view |-> ViewFrame(sel), password |-> password]
            /\ filtered_df' = ApplyFilters(df, sel)
            /\ attorney_util' = AttorneyUtil(filtered_df')
            /\ attorney_metrics' = AttorneyMetrics(filtered_df')

AppInit ==
    /\ six_months_df \in {load_data(S, AttorneyRoster) : S \in Datasets}
    /\ session_state = InitialSessionState
    /\ run = [outcome |-> "none", clear |-> FALSE, sel |-> NoSelection,
            view |-> "none", password |-> NotAsked]
    /\ filtered_df = {}
    /\ attorney_util = {}
    /\ attorney_metrics = {}

BandIdle ==
    /\ band_fn = "none"
    /\ band_arg = NullValue
    /\ band_result = ""

OrderIdle ==
    /\ order_left = {}
    /\ order_df = {}

Init == AppInit /\ BandIdle /\ OrderIdle /\ ScriptIdle

\* a run in which check_password returns False: the block of line 205 is
\* skipped, and `with tab5:` of line 861, at the left margin, raises NameError
Locked(password) ==
    /\ ~check_password(session_state, password)
    /\ run' = [outcome |-> "NameError", clear |-> FALSE, sel |-> NoSelection,
            view |-> "none", password |-> password]
    /\ filtered_df' = {}
    /\ attorney_util' = {}
    /\ attorney_metrics' = {}
    /\ UNCHANGED <<six_months_df, session_state, band_vars, order_vars, script_vars>>

\* the run in which the password is accepted
Unlock(password) ==
    /\ ~session_state.authenticated
    /\ check_password(session_state, password)
    /\ Dashboard([session_state EXCEPT !.authenticated = TRUE], password, "none", {},
                 FALSE)
    /\ UNCHANGED <<six_months_df, band_vars, order_vars, script_vars>>

\* a rerun with every widget left as it is
Rerun ==
    /\ session_state.authenticated
    /\ Dashboard(session_state, NotAsked, "none", {}, FALSE)
    /\ UNCHANGED <<six_months_df, band_vars, order_vars, script_vars>>

\* the user picks in the date widget
ChangeDateRange(value) ==
    /\ session_state.authenticated
    /\ "date_range" \in session_state.keys
    /\ value \in DateInputResults(six_months_df, session_state.date_range)
    /\ Dashboard(session_state, NotAsked, "date_range", value, FALSE)
    /\ UNCHANGED <<six_months_df, band_vars, order_vars, script_vars>>

\* the user adds or removes one option of a multiselect
ToggleOption(key, option) ==
    /\ session_state.authenticated
    /\ key \in session_state.keys
    /\ LET old == session_state[key]
           new == IF option \in old THEN old \ {option} ELSE old \cup {option}
       IN /\ Picks([session_state EXCEPT ![key] = new]) <= MaxPicks
          /\ Dashboard(session_state, NotAsked, key, new, FALSE)
    /\ UNCHANGED <<six_months_df, band_vars, order_vars, script_vars>>

\* the user clicks 'Clear All Filters'
ClickClear ==
    /\ session_state.authenticated
    /\ SelectionKeys \subseteq session_state.keys
    /\ Dashboard(session_state, NotAsked, "none", {}, TRUE)
    /\ UNCHANGED <<six_months_df, band_vars, order_vars, script_vars>>

Next ==
    \/ \E password \in Passwords : Locked(password)
    \/ \E password \in Passwords : Unlock(password)
    \/ Rerun
    \/ \E value \in DateInputResults(six_months_df, session_state.date_range) :
         ChangeDateRange(value)
    \/ \E key \in SelectionKeys :
         \E option \in Options(six_months_df, key) : ToggleOption(key, option)
    \/ ClickClear

Spec == Init /\ [][Next]_vars

-----------------------------------------------------------------------------
(* The classifiers applied to arbitrary cell values *)

\* the longest text put before and after a phrase
MaxAffix == 1

AffixChars == {"x", " "}

Affixes == UNION {[1..n -> AffixChars] : n \in 0..MaxAffix}

\* s with its i-th character removed
DropAt(s, i) == SubSeq(s, 1, i - 1) \o SubSeq(s, i + 1, Len(s))

Phrases == {RevenueVocabulary[k].phrase : k \in 1..Len(RevenueVocabulary)}

RevenueTexts ==
    {pre \o body \o suf : pre \in Affixes, suf \in Affixes,
                         body \in Phrases \cup {Upper(p) : p \in Phrases}}
    \cup UNION {{DropAt(p, i) : i \in 1..Len(p)} : p \in Phrases}
    \cup {<<>>, <<"n", "/", "a">>, <<"$", "1", "0", " ", "M">>}

FeeAmounts ==
    {-1000, 0, 1, 6000000}
    \cup {FeeLadder[k].upto \div 2 + d : k \in 1..Len(FeeLadder), d \in {-1, 0, 1}}

FeeTexts == {<<"a", "b", "c">>, <<"6", "0", "0", "0", "0">>, <<"0">>}

BandInputs ==
    {NullValue}
    \cup {Num(n) : n \in FeeAmounts}
    \cup {Text(s) : s \in RevenueTexts \cup FeeTexts}

AppIdle ==
    /\ six_months_df = {}
    /\ session_state = InitialSessionState
    /\ run = [outcome |-> "none", clear |-> FALSE, sel |-> NoSelection,
            view |-> "none", password |-> NotAsked]
    /\ filtered_df = {}
    /\ attorney_util = {}
    /\ attorney_metrics = {}

InitBand ==
    /\ AppIdle
    /\ OrderIdle
    /\ ScriptIdle
    /\ band_fn = "none"
    /\ band_arg \in BandInputs
    /\ band_result = ""

ClassifyFee ==
    /\ band_fn = "none"
    /\ band_fn' = "fee"
    /\ band_result' = get_fee_band(band_arg)
    /\ UNCHANGED <<band_arg, app_vars, order_vars, script_vars>>

ClassifyRevenue ==
    /\ band_fn = "none"
    /\ band_fn' = "revenue"
    /\ band_result' = get_company_revenue_band(band_arg)
    /\ UNCHANGED <<band_arg, app_vars, order_vars, script_vars>>

NextBand == ClassifyFee \/ ClassifyRevenue

SpecBand == InitBand /\ [][NextBand]_vars

-----------------------------------------------------------------------------
(* Claims about the classifiers (checked under SpecBand) *)

\* C7: get_fee_band and get_company_revenue_band are total: for every input
\* (null, zero, negative, empty or unrecognized text) each returns a label of
\* its fixed label set (the option list of its sidebar widget) and never raises.
C7_ClassifiersTotal ==
    /\ band_fn = "fee" => band_result \in SeqRange(fee_bands)
    /\ band_fn = "revenue" => band_result \in SeqRange(revenue_bands)

\* the except branch of get_fee_band has returned a label for a text that
\* float() rejects
C7_Witness ==
    /\ band_fn = "fee"
    /\ band_arg = Text(<<"a", "b", "c">>)
    /\ band_result = "Under $50K"

\* the thresholds the claim lists, in annual dollars
C8_Thresholds == <<50000, 100000, 250000, 500000, 1000000, 2000000, 5000000, 10000000>>

\* the band the claim describes for the six-month amount x
C8_Expected(x) ==
    LET a == 2 * x
        steps == {k \in 1..Len(C8_Thresholds) : C8_Thresholds[k] >= a}
    IN IF x = 0 THEN fee_bands[1]
       ELSE IF steps = {} THEN fee_bands[Len(fee_bands)]
       ELSE fee_bands[CHOOSE k \in steps : \A j \in steps : k <= j]

\* C8: get_fee_band(x) is the lowest band for null or zero x; otherwise it is
\* the label of the first ladder step whose upper threshold is >= 2x, or the
\* top band when 2x exceeds the last threshold.
C8_FeeBandLadder ==
    band_fn = "fee" =>
        /\ band_arg.kind = "null" => band_result = fee_bands[1]
        /\ band_arg.kind = "num" => band_result = C8_Expected(band_arg.n)

\* 6,000,000 is annualized to 12,000,000 and lands above the $10M step
C8_Witness ==
    /\ band_fn = "fee"
    /\ band_arg = Num(6000000)
    /\ band_result = "Over $10M"

\* phrase p occurs in text t, letters compared without regard to case
C9_OccursIgnoringCase(t, p) ==
    \E i \in 0..(Len(t) - Len(p)) :
        \A k \in 1..Len(p) : LowerChar(t[i + k]) = LowerChar(p[k])

C9_MatchingLabels(t) ==
    {RevenueVocabulary[k].label :
        k \in {j \in 1..Len(RevenueVocabulary) :
                   C9_OccursIgnoringCase(t, RevenueVocabulary[j].phrase)}}

\* C9: get_company_revenue_band maps a text to a band whose vocabulary phrase
\* occurs in it as a case-insensitive substring, and maps every missing, empty
\* or unmatched value to "Unknown".
C9_RevenueBandBySubstring ==
    band_fn = "revenue" =>
        IF band_arg.kind = "null" \/ C9_MatchingLabels(StrOf(band_arg)) = {}
        THEN band_result = "Unknown"
        ELSE band_result \in C9_MatchingLabels(StrOf(band_arg))

\* an upper-case phrase inside a longer text has been matched
C9_Witness ==
    /\ band_fn = "revenue"
    /\ band_arg = Text(<<"x", "$", "1", "B", " ", "-", " ", "$", "3", "B", " ">>)
    /\ band_result = "$1B - $3B"

-----------------------------------------------------------------------------
(* The filter step on its own: one filter pass per selection, and the same   *)
(* filter statements applied one at a time in an arbitrary order             *)

RECURSIVE SubsetsUpTo(_, _)
\* the subsets of X of at most k elements
SubsetsUpTo(X, k) ==
    IF k = 0 THEN {{}}
    ELSE LET smaller == SubsetsUpTo(X, k - 1)
         IN smaller \cup UNION {{s \cup {x} : x \in X} : s \in smaller}

\* the most options selected, over all multiselects, in a selection
MaxFilterPicks == 2

\* every selection the sidebar can hand to the filter step of a run that
\* reaches it: a date range that is None or a tuple, and at most
\* MaxFilterPicks selected options
Selections(df) ==
    LET pairs == UNION {{<<key, o>> : o \in Options(df, key)} : key \in SelectionKeys}
        dates == DateInputResults(df, TupleRange(<<>>)) \cup {NoneRange}
    IN {[k \in DOMAIN NoSelection |->
            IF k = "date_range" THEN d ELSE {p[2] : p \in {q \in picks : q[1] = k}}] :
        d \in dates, picks \in SubsetsUpTo(pairs, MaxFilterPicks)}

\* the filter statements whose "if" holds
ActiveKeys(sel) ==
    {key \in SelectionKeys : sel[key] # {}}
    \cup (IF DateRangeComplete(sel.date_range) THEN {"date_range"} ELSE {})

InitFilter ==
    /\ six_months_df \in {load_data(S, AttorneyRoster) : S \in Datasets}
    /\ session_state = [InitialSessionState EXCEPT !.authenticated = TRUE]
    /\ run \in {[outcome |-> "none", clear |-> FALSE, sel |-> sel, view |-> "none",
                 password |-> NotAsked] :
                   sel \in Selections(six_months_df)}
    /\ filtered_df = {}
    /\ attorney_util = {}
    /\ attorney_metrics = {}
    /\ order_left = {}
    /\ order_df = {}
    /\ BandIdle
    /\ ScriptIdle

\* lines 297-343 on the selection
FilterPass ==
    /\ run.outcome = "none"
    /\ run' = [run EXCEPT !.outcome = "filtered", !.view = ViewFrame(run.sel)]
    /\ filtered_df' = ApplyFilters(six_months_df, run.sel)
    /\ UNCHANGED <<six_months_df, session_state, attorney_util, attorney_metrics,
                   band_vars, order_vars, script_vars>>

\* start from the copy of the loaded table, every active statement to apply
StartAnyOrder ==
    /\ run.outcome = "none"
    /\ run' = [run EXCEPT !.outcome = "ordering"]
    /\ order_left' = ActiveKeys(run.sel)
    /\ order_df' = six_months_df
    /\ UNCHANGED <<six_months_df, session_state, filtered_df, attorney_util,
                   attorney_metrics, band_vars, script_vars>>

\* apply one of the remaining filter statements
ApplyStep(key) ==
    /\ run.outcome = "ordering"
    /\ key \in order_left
    /\ order_left' = order_left \ {key}
    /\ order_df' = FilterStep(key, order_df, run.sel)
    /\ UNCHANGED <<app_vars, band_vars, script_vars>>

NextFilter ==
    \/ FilterPass
    \/ StartAnyOrder
    \/ \E key \in SeqRange(FilterOrder) : ApplyStep(key)

SpecFilter == InitFilter /\ [][NextFilter]_vars

-----------------------------------------------------------------------------
(* Claims about the filter step (checked under SpecFilter) *)

\* the filter statements of every dimension but key, in the code's order
C3_OrderWithout(key) == SelectSeq(FilterOrder, LAMBDA k : k # key)

\* C3: for every multiselect dimension, an empty selected set leaves the row
\* set unchanged by that dimension: the filtered view is the one obtained
\* with that dimension's filter statement removed, and a row that every
\* dimension with a non-empty selection keeps is in the filtered view (no row
\* is removed because a selection is empty).
C3_EmptySelectionIsNoop ==
    run.outcome = "filtered" =>
        /\ \A key \in SelectionKeys :
               run.sel[key] = {} =>
                   filtered_df
                       = ApplyInOrder(C3_OrderWithout(key), six_months_df, run.sel)
        /\ \A r \in six_months_df :
               (\A key \in ActiveKeys(run.sel) :
                    r \in FilterStep(key, six_months_df, run.sel))
                   => r \in filtered_df

\* a pass with no selection at all has kept every row of a non-empty table
C3_Witness ==
    /\ run.outcome = "filtered"
    /\ \A key \in SelectionKeys : run.sel[key] = {}
    /\ ~DateRangeComplete(run.sel.date_range)
    /\ filtered_df = six_months_df
    /\ six_months_df # {}

\* the rows kept by the statement of key applied alone to the loaded table
C4_KeptBy(key) == FilterStep(key, six_months_df, run.sel)

\* C4: applying the active filter predicates in any order yields the same row
\* set as the code's order, and that set is the intersection of the rows kept
\* by each active predicate.
C4_OrderIndependent ==
    (run.outcome = "ordering" /\ order_left = {}) =>
        /\ order_df = ApplyFilters(six_months_df, run.sel)
        /\ order_df = {r \in six_months_df :
                          \A key \in ActiveKeys(run.sel) : r \in C4_KeptBy(key)}

\* two predicates were active, each removing a row the other keeps, and both
\* have been applied
C4_Witness ==
    /\ run.outcome = "ordering"
    /\ order_left = {}
    /\ Cardinality(ActiveKeys(run.sel)) >= 2
    /\ \A key \in ActiveKeys(run.sel) :
           /\ C4_KeptBy(key) # six_months_df
           /\ order_df # C4_KeptBy(key)
    /\ order_df # {}

\* C5: with a complete date range [d0, d1], a row passes the date predicate
\* if and only if d0 <= its service date <= d1, both ends included; the
\* invoice date plays no part.
C5_DateRangeInclusive ==
    (/\ run.outcome = "ordering"
     /\ DateRangeComplete(run.sel.date_range)
     /\ order_left = ActiveKeys(run.sel) \ {"date_range"}) =>
        order_df = {r \in six_months_df :
                       /\ Len(r.ServiceDate) = 1
                       /\ run.sel.date_range.dates[1] <= r.ServiceDate[1]
                       /\ r.ServiceDate[1] <= run.sel.date_range.dates[2]}

\* the date predicate alone has kept a row whose service date is the upper end
\* of the range and whose invoice date lies outside it, and has dropped a row
C5_Witness ==
    /\ run.outcome = "ordering"
    /\ DateRangeComplete(run.sel.date_range)
    /\ order_left = ActiveKeys(run.sel) \ {"date_range"}
    /\ \E r \in order_df :
           /\ r.ServiceDate[1] = run.sel.date_range.dates[2]
           /\ r.InvoiceDate[1] > run.sel.date_range.dates[2]
    /\ order_df # six_months_df

\* a time-based row: one with a rate above zero; every other row is fixed-fee
C30_TimeBased(r) == Len(r.Rate) = 1 /\ r.Rate[1] > 0

\* the rows of df the claim keeps under the selected fee types
C30_Kept(df, selected) ==
    IF selected = {"Time"} THEN {r \in df : C30_TimeBased(r)}
    ELSE IF selected = {"Fixed Fee"} THEN {r \in df : ~C30_TimeBased(r)}
    ELSE df

-----------------------------------------------------------------------------
(* One script run, section by section, on the files it finds *)

\* the most files that cannot be read in a run
MaxUnreadable == 1

\* the most optional columns missing from SIX_FULL_MOS.csv in a run
MaxAbsent == 1

ScriptSources ==
    {[six_months |-> S, attorneys |-> R, unreadable |-> U, absent |-> A] :
        S \in ScenarioDatasets, R \in Rosters,
        U \in SubsetsUpTo(Files \cup {NineBoxFile}, MaxUnreadable),
        A \in SubsetsUpTo(OptionalColumns, MaxAbsent)}

\* the selections the sidebar hands over in the runs explored: the default
\* date range or none, and at most one option selected
ScriptSelections(df) ==
    LET full == [NoSelection EXCEPT
                    !.date_range = TupleRange(<<min_date(df), max_date(df)>>)]
        pairs == UNION {{<<key, o>> : o \in Options(df, key)} : key \in SelectionKeys}
    IN {full, NoSelection} \cup {[full EXCEPT ![p[1]] = {p[2]}] : p \in pairs}

InitScript ==
    /\ sources \in ScriptSources
    /\ loaded = NotLoaded
    /\ pc = "gate"
    /\ sections = NoSections
    /\ metrics = NoMetrics
    /\ six_months_df = {}
    /\ session_state \in {[InitialSessionState EXCEPT !.authenticated = b] :
                             b \in BOOLEAN}
    /\ run = [outcome |-> "none", clear |-> FALSE, sel |-> NoSelection,
            view |-> "none", password |-> NotAsked]
    /\ filtered_df = {}
    /\ attorney_util = {}
    /\ attorney_metrics = {}
    /\ BandIdle
    /\ OrderIdle

\* what no tab assigns
tab_frame == <<sources, loaded, six_months_df, session_state, filtered_df, band_vars,
               order_vars>>

\* m with the fields of upd replaced
With(m, upd) == [k \in DOMAIN m |-> IF k \in DOMAIN upd THEN upd[k] ELSE m[k]]

\* the first statements of section s raise: inside a try block the except
\* branch shows the error and the run goes on; elsewhere the exception ends
\* the run
Raise(s) ==
    IF s \in GuardedSections
    THEN /\ sections' = [sections EXCEPT ![s] = "error"]
         /\ pc' = NextSection(s)
         /\ UNCHANGED run
    ELSE /\ sections' = [sections EXCEPT ![s] = "raised"]
         /\ pc' = "raised"
         /\ run' = [run EXCEPT !.outcome = "KeyError"]

Render(s) ==
    /\ sections' = [sections EXCEPT ![s] = "rendered"]
    /\ pc' = NextSection(s)
    /\ UNCHANGED run

\* lines 19-29 and 205: the password typed in the sidebar is compared with the
\* secret.  When check_password returns False the block of line 205 (through
\* line 859) is skipped, and the next statement is `with tab5:` of line 861,
\* which stands at the left margin
CheckPassword(password) ==
    /\ pc = "gate"
    /\ IF check_password(session_state, password)
       THEN /\ session_state' = [session_state EXCEPT !.authenticated = TRUE]
            /\ pc' = "load"
            /\ run' = [run EXCEPT !.password =
                                      IF session_state.authenticated THEN NotAsked
                                      ELSE password]
       ELSE /\ pc' = "tab5"
            /\ run' = [run EXCEPT !.outcome = "gate closed", !.password = password]
            /\ UNCHANGED session_state
    /\ UNCHANGED <<sources, loaded, sections, metrics, six_months_df, filtered_df,
                   attorney_util, attorney_metrics, band_vars, order_vars>>

\* lines 211-213.  When load_data returned None the block of line 213 (through
\* line 859) is skipped, and the next statement is `with tab5:` of line 861,
\* which stands at the left margin
LoadData ==
    /\ pc = "load"
    /\ LET out == LoadOutcome(sources)
       IN /\ loaded' = [returned |-> out.returned, error |-> out.error,
                        attorneys_df |-> out.attorneys_df]
          /\ six_months_df' = out.six_months_df
          /\ pc' = IF out.error THEN "tab5" ELSE "sidebar"
    /\ UNCHANGED <<sources, sections, metrics, session_state, run, filtered_df,
                   attorney_util, attorney_metrics, band_vars, order_vars>>

\* lines 214-355: the widgets, the filter statements and st.tabs
Sidebar ==
    /\ pc = "sidebar"
    /\ IF SectionRaises("sidebar", sources)
       THEN Raise("sidebar") /\ UNCHANGED filtered_df
       ELSE \E sel \in ScriptSelections(six_months_df) :
                /\ sections' = [sections EXCEPT !["sidebar"] = "rendered"]
                /\ pc' = NextSection("sidebar")
                /\ run' = [run EXCEPT !.outcome = "running", !.sel = sel,
                                       !.view = ViewFrame(sel)]
                /\ filtered_df' = ApplyFilters(six_months_df, sel)
    /\ UNCHANGED <<sources, loaded, metrics, six_months_df, session_state,
                   attorney_util, attorney_metrics, band_vars, order_vars>>

\* lines 357-483
Tab1 ==
    /\ pc = "tab1"
    /\ IF SectionRaises("tab1", sources)
       THEN Raise("tab1") /\ UNCHANGED <<metrics, attorney_util>>
       ELSE /\ Render("tab1")
            /\ metrics' = With(metrics, OverviewKPIs(filtered_df))
            /\ attorney_util' = AttorneyUtil(filtered_df)
    /\ UNCHANGED <<tab_frame, attorney_metrics>>

\* lines 485-576
Tab2 ==
    /\ pc = "tab2"
    /\ IF SectionRaises("tab2", sources)
       THEN Raise("tab2") /\ UNCHANGED metrics
       ELSE Render("tab2") /\ metrics' = With(metrics, ClientAverages(filtered_df))
    /\ UNCHANGED <<tab_frame, attorney_util, attorney_metrics>>

\* lines 578-675
Tab3 ==
    /\ pc = "tab3"
    /\ IF SectionRaises("tab3", sources)
       THEN Raise("tab3") /\ UNCHANGED metrics
       ELSE /\ Render("tab3")
            /\ metrics' = [metrics EXCEPT !.fee_band_metrics = FeeBandMetrics(filtered_df)]
    /\ UNCHANGED <<tab_frame, attorney_util, attorney_metrics>>

\* lines 677-859
Tab4 ==
    /\ pc = "tab4"
    /\ IF SectionRaises("tab4", sources)
       THEN Raise("tab4") /\ UNCHANGED metrics
       ELSE /\ Render("tab4")
            /\ metrics' = [metrics EXCEPT !.client_metrics = ClientMetrics(filtered_df)]
    /\ UNCHANGED <<tab_frame, attorney_util, attorney_metrics>>

\* lines 861-1087.  The name tab5 is bound by line 352 alone: in a run that
\* skipped the block of line 205 or of line 213 `with tab5:` raises NameError,
\* outside any try block
Tab5 ==
    /\ pc = "tab5"
    /\ IF sections["sidebar"] = "not run"
       THEN /\ sections' = [sections EXCEPT !["tab5"] = "raised"]
            /\ pc' = "raised"
            /\ run' = [run EXCEPT !.outcome = "NameError"]
            /\ UNCHANGED <<metrics, attorney_metrics>>
       ELSE IF SectionRaises("tab5", sources)
            THEN Raise("tab5") /\ UNCHANGED <<metrics, attorney_metrics>>
            ELSE /\ Render("tab5")
                 /\ attorney_metrics' = AttorneyMetrics(filtered_df)
                 /\ metrics' = [metrics EXCEPT
                                   !.avg_hourly_rates = AvgHourlyRates(filtered_df)]
    /\ UNCHANGED <<tab_frame, attorney_util>>

\* lines 1089-1209
Tab6 ==
    /\ pc = "tab6"
    /\ IF SectionRaises("tab6", sources)
       THEN Raise("tab6") /\ UNCHANGED metrics
       ELSE /\ Render("tab6")
            /\ metrics' = [metrics EXCEPT !.practice_metrics = PracticeMetrics(filtered_df)]
    /\ UNCHANGED <<tab_frame, attorney_util, attorney_metrics>>

\* lines 1211-1424
Tab7 ==
    /\ pc = "tab7"
    /\ IF SectionRaises("tab7", sources)
       THEN Raise("tab7") /\ UNCHANGED metrics
       ELSE /\ Render("tab7")
            /\ metrics' = [metrics EXCEPT !.monthly_trends = MonthlyTrends(filtered_df)]
    /\ UNCHANGED <<tab_frame, attorney_util, attorney_metrics>>

\* lines 1426-1646
Tab8 ==
    /\ pc = "tab8"
    /\ IF SectionRaises("tab8", sources) THEN Raise("tab8") ELSE Render("tab8")
    /\ UNCHANGED <<tab_frame, metrics, attorney_util, attorney_metrics>>

NextScript ==
    \/ \E password \in Passwords : CheckPassword(password)
    \/ LoadData
    \/ Sidebar
    \/ Tab1
    \/ Tab2
    \/ Tab3
    \/ Tab4
    \/ Tab5
    \/ Tab6
    \/ Tab7
    \/ Tab8

SpecScript == InitScript /\ [][NextScript]_vars

-----------------------------------------------------------------------------
(* Claims about a script run (checked under SpecScript) *)

\* the accepted activity-type labels, in lower case
C11_AcceptedLabels == {<<"b", "i", "l", "l", "a", "b", "l", "e">>,
                       <<"b", "i", "l", "l">>,
                       <<"t", "i", "m", "e">>}

\* text s equals an accepted label once its blanks at both ends are removed,
\* letters compared without regard to case
C11_IsAccepted(s) ==
    \E i \in 1..(Len(s) + 1), j \in 0..Len(s) :
        /\ \A k \in 1..Len(s) : (k < i \/ k > j) => s[k] = " "
        /\ i <= j /\ s[i] # " " /\ s[j] # " "
        /\ \E label \in C11_AcceptedLabels :
               /\ Len(label) = j - i + 1
               /\ \A k \in 1..Len(label) : LowerChar(s[i + k - 1]) = label[k]

\* the billable hours of attorney a in the filtered view
C11_BillableHours(a) ==
    SumHours({r \in filtered_df : r.Attorney = a /\ C11_IsAccepted(r.ActivityType)})

\* C11: a time entry is flagged billable if and only if its activity type,
\* trimmed and compared without regard to case, is an accepted label; and the
\* numerator of every attorney's utilization rate is that attorney's billable
\* hours only (non-billable hours do not contribute).
C11_UtilizationFromBillableHours ==
    /\ \A r \in six_months_df : r.IsBillable <=> C11_IsAccepted(r.ActivityType)
    /\ \A g \in attorney_util \cup attorney_metrics :
           (~IsMissing(g.TargetHours) /\ g.TargetHours[1] > 0) =>
               g.UtilizationRate[1] = 100 * C11_BillableHours(g.Attorney)

\* the most recent service date of the filtered view
C12_RecentDate == max_date(filtered_df)

RECURSIVE C12_Gcd(_, _)
C12_Gcd(a, b) == IF b = 0 THEN a ELSE C12_Gcd(b, a % b)

\* the pair <<n, d>> in lowest terms (n >= 0, d > 0)
C12_Lowest(n, d) == <<n \div C12_Gcd(n, d), d \div C12_Gcd(n, d)>>

\* the finite value v is n / d
C12_Is(v, n, d) == v.kind = "num" /\ C12_Lowest(v.num, v.den) = C12_Lowest(n, d)

\* C12: for every client of the client segmentation (with dated services),
\* churn probability is 0.8 if the client's last service date is more than 90
\* days before the most recent service date of the filtered view and 0.2
\* otherwise; monthly revenue is total revenue / max(retention days / 30, 1);
\* and LTV = monthly revenue / churn probability * 12.
C12_SegmentationFormulas ==
    \A cm \in metrics.client_metrics :
        ~IsMissing(cm.LastService) =>
            LET days == cm.RetentionDays[1]
                tenths == IF C12_RecentDate - cm.LastService[1] > 90 THEN 8 ELSE 2
                monthly == IF days > 30 THEN C12_Lowest(cm.TotalFees * 30, days)
                           ELSE <<cm.TotalFees, 1>>
            IN /\ cm.ChurnProbability[1] * 10 = tenths * cm.ChurnProbability[2]
               /\ C12_Is(cm.MonthlyFees, monthly[1], monthly[2])
               /\ C12_Is(cm.LTV, monthly[1] * 10 * 12, monthly[2] * tenths)

\* the segmentation holds a client last served exactly 90 days before the
\* most recent date at 0.2, one served 91 days before at 0.8, and one retained
\* for more than a month
C12_Witness ==
    /\ sections["tab4"] = "rendered"
    /\ \E cm \in metrics.client_metrics :
           /\ C12_RecentDate - cm.LastService[1] = 90
           /\ cm.ChurnProbability[1] * 10 = 2 * cm.ChurnProbability[2]
    /\ \E cm \in metrics.client_metrics :
           /\ C12_RecentDate - cm.LastService[1] = 91
           /\ cm.ChurnProbability[1] * 10 = 8 * cm.ChurnProbability[2]
    /\ \E cm \in metrics.client_metrics : cm.RetentionDays[1] > 30

\* the row of the segmentation in the scenario: a client first served on
\* 2024-01-01, last served on 2024-04-01, total revenue $9,000, the most
\* recent service date of the filtered view being 2024-04-01
C13_ScenarioRows ==
    {cm \in metrics.client_metrics :
        /\ cm.FirstService = Some(to_datetime(<<2024, 1, 1>>))
        /\ cm.LastService = Some(to_datetime(<<2024, 4, 1>>))
        /\ cm.TotalFees = 9000
        /\ C12_RecentDate = to_datetime(<<2024, 4, 1>>)}

\* C13 as stated: in the scenario the pipeline yields retention 90 days,
\* churn probability 0.2, monthly revenue $3,000 and LTV $180,000.
C13_ScenarioAsStated ==
    \A cm \in C13_ScenarioRows :
        /\ cm.RetentionDays = Some(90)
        /\ cm.ChurnProbability[1] * 10 = 2 * cm.ChurnProbability[2]
        /\ C12_Is(cm.MonthlyFees, 3000, 1)
        /\ C12_Is(cm.LTV, 180000, 1)

\* C13, amended: 2024 is a leap year, so in the scenario the pipeline yields
\* retention 91 days, churn probability 0.2, monthly revenue
\* $9,000 * 30 / 91 (about $2,967.03) and LTV $9,000 * 30 / 91 / 0.2 * 12
\* (about $178,021.98).
C13_ScenarioAsComputed ==
    \A cm \in C13_ScenarioRows :
        /\ cm.RetentionDays = Some(91)
        /\ cm.ChurnProbability[1] * 10 = 2 * cm.ChurnProbability[2]
        /\ C12_Is(cm.MonthlyFees, 9000 * 30, 91)
        /\ C12_Is(cm.LTV, 9000 * 30 * 5 * 12, 91)

\* the Client Segmentation tab has computed the scenario's client
C13_Witness ==
    /\ sections["tab4"] = "rendered"
    /\ C13_ScenarioRows # {}

\* the average-rate rows of the three groupings: total hours, total amount
\* and the rate reported
C14_RateRows ==
    {[Hours |-> g.Hours, Amount |-> g.Amount, Rate |-> g.AvgHourlyRate] :
        g \in metrics.avg_hourly_rates}
    \cup {[Hours |-> g.Hours, Amount |-> g.Amount, Rate |-> g.AvgRate] :
        g \in metrics.practice_metrics}
    \cup {[Hours |-> g.Hours, Amount |-> g.Amount, Rate |-> g.AvgRate] :
        g \in metrics.monthly_trends}

\* C14: the average rate of every group (attorney, practice group, month x
\* revenue band) is total amount / total hours, and for a group whose total
\* hours is 0 it is null: never an infinity.
C14_AverageRateGuarded ==
    \A g \in C14_RateRows :
        IF g.Hours = 0
        THEN g.Rate.kind = "nan"
        ELSE g.Rate.kind = "num" /\ g.Rate.num * g.Hours = g.Amount * g.Rate.den

\* the scalar metrics handed to st.metric
C15_Scalars ==
    {metrics.billable_share, metrics.avg_rate, metrics.avg_revenue_per_client,
     metrics.avg_hours_per_client}
    \cup {m.ClientPct : m \in metrics.fee_band_metrics}
    \cup {m.FeePct : m \in metrics.fee_band_metrics}

\* C15: when the filtered view is empty (every file and column being there),
\* no aggregation step raises and no metric handed to the presentation layer
\* is NaN or infinite.
C15_EmptyViewNoNaN ==
    (/\ sections["sidebar"] = "rendered" /\ filtered_df = {}
     /\ sources.absent = {} /\ sources.unreadable = {}) =>
        /\ pc # "raised"
        /\ \A s \in SeqRange(SectionOrder) : sections[s] # "error"
        /\ \A v \in C15_Scalars : v.kind \notin {"nan", "inf"}

\* C16: in a run whose load succeeded, a failing step degrades only the
\* section that needs it: no exception ends the run, and once the run is over
\* every section whose own statements do not fail has been rendered.
C16_SectionsIndependent ==
    (loaded # NotLoaded /\ ~loaded.error) =>
        /\ pc # "raised"
        /\ pc = "done" =>
               \A s \in SeqRange(SectionOrder) :
                   ~SectionRaises(s, sources) => sections[s] = "rendered"

\* C17: if the primary time-entry file cannot be read, load_data returns no
\* table and shows an error, and no section of the dashboard is computed or
\* rendered.
C17_PrimaryFailureFatal ==
    (PrimaryFile \in sources.unreadable /\ loaded # NotLoaded) =>
        /\ \A f \in Files : loaded.returned[f] = "None"
        /\ loaded.error
        /\ \A s \in SeqRange(SectionOrder) : sections[s] \in {"not run", "raised"}
        /\ six_months_df = {} /\ filtered_df = {}
        /\ metrics = NoMetrics /\ attorney_util = {} /\ attorney_metrics = {}

\* the run on an unreadable primary file has ended with the load error shown
\* and nothing rendered
C17_Witness ==
    /\ PrimaryFile \in sources.unreadable
    /\ pc = "raised"
    /\ loaded.error
    /\ sections["tab1"] = "not run"

\* C18: if an auxiliary file (attorney-client map, utilization export, pivot
\* export) cannot be read while the primary file and the roster can,
\* load_data still returns the enriched time-entry table.
C18_AuxiliaryFailureDegrades ==
    (/\ loaded # NotLoaded
     /\ sources.unreadable \cap {PrimaryFile, RosterFile} = {}
     /\ sources.unreadable \cap Files # {}) =>
        /\ loaded.returned[PrimaryFile] = "DataFrame"
        /\ six_months_df = load_data(sources.six_months, sources.attorneys)

\* C19: after a successful load every time entry that is not an expense is in
\* the loaded table exactly once, with the monthly target of the active
\* attorney of its name, or a null target when there is none.
C19_LeftJoinKeepsRows ==
    (loaded # NotLoaded /\ ~loaded.error) =>
        \A r \in DropExpenses(sources.six_months) :
            LET copies == {e \in six_months_df : e.id = r.id}
                matches == {a \in sources.attorneys :
                               a.Stage = "Active" /\ a.AttorneyName = r.Attorney}
            IN /\ Cardinality(copies) = 1
               /\ \A e \in copies :
                      IF matches = {} THEN e.TargetHours = <<>>
                      ELSE e.TargetHours \in {a.TargetHoursMonth : a \in matches}

\* the distinct invoice numbers of the filtered view's rows served in the
\* calendar month of its latest service date
C21_BillsOfLastServiceMonth ==
    LET dated == {r \in filtered_df : ~IsMissing(r.ServiceDate)}
        last == {r \in dated :
                    MonthBucket(r.ServiceDate[1]) = MonthBucket(max_date(filtered_df))}
    IN IF dated = {} THEN 0
       ELSE Cardinality({r.InvoiceNumber[1] :
                            r \in {x \in last : ~IsMissing(x.InvoiceNumber)}})

\* C21: the headline 'Monthly Bills Generated' is the value (distinct invoice
\* numbers) of the chronologically last calendar-month bucket of the filtered
\* view, the rows being bucketed on their service date, and is 0 when the
\* filtered view is empty.
C21_HeadlineIsLastServiceMonth ==
    sections["tab1"] = "rendered" =>
        /\ filtered_df = {} => metrics.monthly_bills = 0
        /\ metrics.monthly_bills = C21_BillsOfLastServiceMonth

\* C22: the attorney table load_data returns holds exactly the roster rows
\* whose pipeline stage equals the active sentinel, and a row of the loaded
\* time-entry table carries target hours only from such a roster row of its
\* attorney's name (an entry of any other attorney carries a null target).
C22_OnlyActiveAttorneys ==
    (loaded # NotLoaded /\ ~loaded.error) =>
        /\ loaded.attorneys_df = {a \in sources.attorneys : a.Stage = "Active"}
        /\ \A e \in six_months_df :
               LET active == {a \in sources.attorneys :
                                 a.Stage = "Active" /\ a.AttorneyName = e.Attorney}
               IN IF active = {} THEN e.TargetHours = <<>>
                  ELSE \E a \in active :
                           a.row = e.att_row /\ a.TargetHoursMonth = e.TargetHours

\* the load has dropped an inactive roster row and one whose stage is spelled
\* 'active', left the entry of that attorney without a target, and given an
\* active attorney's entry its target
C22_Witness ==
    /\ loaded # NotLoaded /\ ~loaded.error
    /\ \E a \in sources.attorneys \ loaded.attorneys_df : a.Stage = "Inactive"
    /\ \E a \in sources.attorneys \ loaded.attorneys_df : a.Stage = "active"
    /\ \E e \in six_months_df : e.Attorney = "C. Lee" /\ e.TargetHours = <<>>
    /\ \E e \in six_months_df : e.Attorney = "A. Smith" /\ e.TargetHours = <<10>>

\* C25: in a run where check_password returns False, load_data is not called,
\* no filter and no aggregation over the time entries is computed or
\* rendered, and the run ends showing the password prompt only (no section of
\* the dashboard is entered and no exception ends the run).
C25_ClosedGateShowsPromptOnly ==
    (~session_state.authenticated /\ pc # "gate") =>
        /\ loaded = NotLoaded /\ six_months_df = {}
        /\ filtered_df = {} /\ run.view = "none"
        /\ metrics = NoMetrics /\ attorney_util = {} /\ attorney_metrics = {}
        /\ \A s \in SeqRange(SectionOrder) : sections[s] = "not run"
        /\ pc # "raised"

-----------------------------------------------------------------------------
(* Claims about a session (checked under Spec) *)

\* days per month of the calendar the day numbers are read in
DaysPerMonth == 30

C1_MonthOf(d) == (d - 1) \div DaysPerMonth

\* the number of months spanned by the filtered window: the selected date
\* range when it is complete, else the whole loaded period
C1_WindowMonths ==
    IF DateRangeComplete(run.sel.date_range)
    THEN C1_MonthOf(run.sel.date_range.dates[2])
         - C1_MonthOf(run.sel.date_range.dates[1]) + 1
    ELSE C1_MonthOf(max_date(six_months_df)) - C1_MonthOf(min_date(six_months_df)) + 1

\* C1: for every attorney of the Overview and Attorney Analysis utilization
\* tables, the utilization rate is 0 when the target is null or <= 0 and is
\* otherwise exactly hours / (target * N) * 100, N the number of months
\* spanned by the filtered window (30 hours against a monthly target of 10
\* over a 1-month window: 300%).
C1_UtilizationPerWindowMonth ==
    run.outcome = "rendered" =>
        \A g \in attorney_util \cup attorney_metrics :
            IF IsMissing(g.TargetHours) \/ g.TargetHours[1] <= 0
            THEN g.UtilizationRate[1] = 0
            ELSE g.UtilizationRate[1] * (g.TargetHours[1] * C1_WindowMonths)
                    = g.Hours * 100 * g.UtilizationRate[2]

\* C2: after 'Clear All Filters', every dimension of the filter selection held
\* in session state is reset: each multiselect selection is empty and the date
\* range is empty or the full range.
C2_ClearResetsEveryDimension ==
    run.clear =>
        /\ \A key \in SelectionKeys : session_state[key] = {}
        /\ session_state.date_range \in
               {NoneRange, TupleRange(<<>>),
                TupleRange(<<min_date(six_months_df), max_date(six_months_df)>>)}

\* C6: if the date range selection is incomplete (absent, or a single date),
\* the run does not raise and applies no date predicate: the filtered view is
\* what the remaining predicates leave.
C6_IncompleteDateRangeIgnored ==
    (/\ run.outcome \in {"rendered", "TypeError"}
     /\ ~DateRangeComplete(run.sel.date_range)) =>
        /\ run.outcome = "rendered"
        /\ filtered_df = ApplyInOrder(Tail(FilterOrder), six_months_df, run.sel)

\* C10: an attorney whose target hours is null or <= 0 is not among the rows of
\* the Overview tab's utilization chart.
C10_NoTargetNotCharted ==
    run.outcome = "rendered" =>
        \A g \in attorney_util : ~IsMissing(g.TargetHours) /\ g.TargetHours[1] > 0

\* the Fee Band assignment of the loaded table: every row carries one label
\* of the fixed set, the rows of one client carry the same label, and the
\* filtered view is made of rows of the loaded table
C20_OneBandPerClient ==
    /\ \A r \in six_months_df : r.FeeBand \in SeqRange(fee_bands)
    /\ \A r \in six_months_df : \A q \in six_months_df :
           r.Client = q.Client => r.FeeBand = q.FeeBand
    /\ filtered_df \subseteq six_months_df

C23_LoadedTableNotMutated ==
    /\ [](run.outcome \in {"rendered", "TypeError"} =>
             run.view # LoadedFrame /\ filtered_df \subseteq six_months_df)
    /\ [][six_months_df' = six_months_df]_vars

\* after a date pick and a fee-type pick, a run in which no filter statement
\* indexes has rendered, as a copy, a view equal to the loaded table
C23_Witness ==
    /\ run.outcome = "rendered"
    /\ run.sel.selected_fee_types = {"All"}
    /\ run.sel.date_range.kind = "tuple"
    /\ IndexingKeys(run.sel) = {}
    /\ run.view = "copy"
    /\ filtered_df = six_months_df

\* C26: session_state.authenticated becomes True only in a run where the
\* password entered equals the secret; once True it stays True over every
\* later run (a filter change, Clear All Filters, a rerun), and in each of
\* them check_password returns True without asking for the password.
C26_AuthenticatedIsPermanent ==
    [][/\ (~session_state.authenticated /\ session_state'.authenticated) =>
              run'.password = "OGC2025AI"
       /\ session_state.authenticated =>
              /\ session_state'.authenticated
              /\ run'.password = "not asked"
              /\ run'.outcome \in {"rendered", "TypeError"}]_vars

\* an authenticated session in which a selection was made and then 'Clear
\* All Filters' clicked is still authenticated
C26_Witness ==
    /\ session_state.authenticated
    /\ run.clear
    /\ run.password = "not asked"
    /\ session_state.selected_revenue_bands # {}

\* C27: a run in which 'Clear All Filters' is clicked ends with
\* session_state.filters_active False and the indicator 'No filters applied';
\* and in every run the indicator shows 'Filters are active' only if a
\* selection has narrowed the filtered view (it is not the whole loaded table).
C27_IndicatorTellsNarrowing ==
    run.outcome = "rendered" =>
        /\ run.clear =>
               /\ ~session_state.filters_active
               /\ StatusIndicator(session_state) = "No filters applied"
        /\ StatusIndicator(session_state) = "Filters are active" =>
               filtered_df # six_months_df

\* C28: for every client, the Fee Band its rows carry is get_fee_band of the
\* sum of Amount over that client's rows in the table load_data returned (the
\* rows left once the expenses are excluded).
C28_FeeBandFromReturnedRows ==
    \A r \in six_months_df :
        r.FeeBand
            = get_fee_band(Num(SumAmount({q \in six_months_df : q.Client = r.Client})))

\* C29: with the date range left at its default (the earliest to the latest
\* service date of the loaded table) and nothing else selected, the filtered
\* view keeps every row of the loaded table, the rows whose service date is
\* missing included.
C29_DefaultRangeKeepsEveryRow ==
    (/\ run.outcome = "rendered"
     /\ run.sel.date_range
            = TupleRange(<<min_date(six_months_df), max_date(six_months_df)>>)
     /\ Picks(run.sel) = 0) =>
        /\ \A r \in six_months_df : IsMissing(r.ServiceDate) => r \in filtered_df
        /\ filtered_df = six_months_df

=============================================================================
